---- MODULE Spec2Model ----
(***************************************************************************)
(* lasgrav: raster image -> laser engraver G-code (src/src/main.rs).       *)
(*                                                                         *)
(* The program is one synchronous run of main().  pc is main's position.   *)
(* f64 quantities are modelled as exact rationals <<num, den>> (den > 0);  *)
(* dpi is carried in tenths of a dot per inch so that 25.4 is an integer   *)
(* (dpmm = dpi / 25.4 = dpi10 / 254).  The usize arithmetic of the         *)
(* precision derivation keeps its 64-bit width as four 16-bit limbs.       *)
(***************************************************************************)
EXTENDS Integers, Sequences, FiniteSets

VARIABLES
    pc,         \* position in main
    args,       \* the parsed command line (struct Lasgrav)
    err,        \* how the run failed: "none", "config", "io", "panic"
    image,      \* the decoded luma image: None or [width, height]
    line_count, \* output line count
    resized,    \* the resampled bitmap: a sequence of rows of samples
    rows,       \* Vec<(u32, Vec<(u32, u32)>)>
    y,          \* the span loop's row counter
    dp,         \* resolved precision, a usize (four 16-bit limbs)
    out,        \* stdout, one entry per CRLF-terminated line
    odd,        \* the serpentine toggle
    ri          \* number of entries of rows the emission loop has consumed

vars == <<pc, args, err, image, line_count, resized, rows, y, dp, out, odd, ri>>

\* Option::None; Some(v) is <<v>>
None == <<>>

-----------------------------------------------------------------------------
(* Bounds of the model.                                                    *)

\* largest width and height (pixels) of an input image
MaxDim == 3
\* largest number of samples (width * line_count) of the resampled bitmap
MaxPixels == 6

\* dpi in tenths: -300, 0, 25.4 and 300 dots per inch
DpiSet == {-3000, 0, 254, 3000}
StepsSet == {0, 1, 2, 4, 10, 160}
LinesSet == {0, 1, 2, 3}
ThresholdSet == {0, 128}
\* Option<u8>: None or <<p>>
PrecisionSet == {None, <<0>>, <<2>>}
\* luminance samples the resampling filter may return
LumSet == {127, 128}

-----------------------------------------------------------------------------
(* Program constants.                                                      *)

Feed == 1000
Power == 1000
\* width of one limb of a usize and number of limbs (64 bits)
LimbBase == 65536

-----------------------------------------------------------------------------
(* Exact rational arithmetic standing for f64.                             *)

RECURSIVE Gcd(_, _)
Gcd(m, n) == IF n = 0 THEN m ELSE Gcd(n, m % n)

\* n / d in lowest terms (n >= 0, d > 0)
Rat(n, d) == LET g == Gcd(n, d) IN <<n \div g, d \div g>>
RatMul(a, b) == Rat(a[1] * b[1], a[2] * b[2])
RatAdd(a, b) == Rat(a[1] * b[2] + b[1] * a[2], a[2] * b[2])
RatDiv(a, b) == Rat(a[1] * b[2], a[2] * b[1])
\* comparisons over the least common denominator
RatEq(a, b) == LET g == Gcd(a[2], b[2]) IN a[1] * (b[2] \div g) = b[1] * (a[2] \div g)
RatLt(a, b) == LET g == Gcd(a[2], b[2]) IN a[1] * (b[2] \div g) < b[1] * (a[2] \div g)
RatLe(a, b) == LET g == Gcd(a[2], b[2]) IN a[1] * (b[2] \div g) <= b[1] * (a[2] \div g)

\* f64::ceil of a non-negative rational
CeilRat(a) == (a[1] + a[2] - 1) \div a[2]
\* f64::round of a non-negative rational: half away from zero
RoundRat(a) == (2 * a[1] + a[2]) \div (2 * a[2])

RECURSIVE Pow10(_)
Pow10(n) == IF n = 0 THEN 1 ELSE 10 * Pow10(n - 1)

-----------------------------------------------------------------------------
(* Basic checks, main.rs 71-86.                                            *)

\* a variant that forgets the divisibility check of main.rs 83
ConfigErrorNoDivisibility(a) ==
    \/ a.dpi10 <= 0
    \/ a.steps_per_mm = 0
    \/ a.lines_per_mm = 0

ConfigError(a) ==
    \/ a.dpi10 <= 0
    \/ a.steps_per_mm = 0
    \/ a.lines_per_mm = 0
    \/ a.steps_per_mm % a.lines_per_mm # 0

steps_per_line(a) == a.steps_per_mm \div a.lines_per_mm

\* dpmm = dpi / 25.4
dpmm(a) == Rat(a.dpi10, 254)

\* ws / hs: ceil(pixels / dpmm * steps_per_mm)
StepsOf(a, pixels) ==
    CeilRat(RatMul(RatDiv(Rat(pixels, 1), dpmm(a)), Rat(a.steps_per_mm, 1)))

LineCount(a, img) == StepsOf(a, img.height) \div steps_per_line(a)

Width(a, img) ==
    IF a.quantize_horizontal
    THEN StepsOf(a, img.width) \div steps_per_line(a)
    ELSE img.width

-----------------------------------------------------------------------------

ArgSet ==
    [dpi10 : DpiSet, threshold : ThresholdSet, lines_per_mm : LinesSet,
     motion : {"uni", "bi"}, precision : PrecisionSet,
     quantize_horizontal : BOOLEAN, steps_per_mm : StepsSet]

Init ==
    /\ pc = "check"
    /\ args \in ArgSet
    /\ err = "none"
    /\ image = None
    /\ line_count = 0
    /\ resized = <<>>
    /\ rows = <<>>
    /\ y = 0
    /\ dp = None
    /\ out = <<>>
    /\ odd = FALSE
    /\ ri = 0

\* main.rs 71-88
Check ==
    /\ pc = "check"
    /\ IF ConfigError(args)
       THEN pc' = "error" /\ err' = "config"
       ELSE pc' = "load" /\ err' = err
    /\ UNCHANGED <<args, image, line_count, resized, rows, y, dp, out, odd, ri>>

\* main.rs 92-99: open, decode, into_luma8.  The image is an input: any
\* dimensions whose resampled bitmap stays within the bounds.
Load ==
    /\ pc = "load"
    /\ \E w \in 1..MaxDim, h \in 1..MaxDim :
          LET img == [width |-> w, height |-> h]
          IN /\ Width(args, img) * LineCount(args, img) <= MaxPixels
             /\ Width(args, img) <= MaxPixels
             /\ image' = img
    /\ pc' = "scale"
    /\ UNCHANGED <<args, err, line_count, resized, rows, y, dp, out, odd, ri>>

\* main.rs 92-95: the `?` on open / decode
LoadFail ==
    /\ pc = "load"
    /\ pc' = "error"
    /\ err' = "io"
    /\ UNCHANGED <<args, image, line_count, resized, rows, y, dp, out, odd, ri>>

\* main.rs 101-127: the scaler.  image::imageops::resize is an external
\* filter: it returns some bitmap of the requested dimensions.
Scale ==
    /\ pc = "scale"
    /\ line_count' = LineCount(args, image)
    /\ resized' \in [1..LineCount(args, image) -> [1..Width(args, image) -> LumSet]]
    /\ y' = 0
    /\ pc' = "spans"
    /\ UNCHANGED <<args, err, image, rows, dp, out, odd, ri>>

\* main.rs 129-132: --save-intermediate given and the save fails
SaveFail ==
    /\ pc = "scale"
    /\ pc' = "error"
    /\ err' = "io"
    /\ UNCHANGED <<args, image, line_count, resized, rows, y, dp, out, odd, ri>>

-----------------------------------------------------------------------------
(* Span extraction, main.rs 136-162.                                       *)

\* a variant that also engraves a sample equal to the threshold
DarkOrEqual(sample, threshold) == sample <= threshold

\* main.rs 141: p = sample < threshold
Dark(sample, threshold) == sample < threshold

\* main.rs 140-152: the column loop from column x (0-based) on, with the
\* open run `on` (None or <<start>>) and the spans pushed so far.
RECURSIVE ScanFrom(_, _, _, _, _)
ScanFrom(row, x, on, spans, threshold) ==
    IF x >= Len(row)
    THEN [on |-> on, spans |-> spans]
    ELSE LET p == Dark(row[x + 1], threshold)
         IN IF p /\ on = None
            THEN ScanFrom(row, x + 1, <<x>>, spans, threshold)
            ELSE IF ~p /\ on # None
                 THEN ScanFrom(row, x + 1, None, Append(spans, <<on[1], x>>), threshold)
                 ELSE ScanFrom(row, x + 1, on, spans, threshold)

\* main.rs 138-156: one row's spans, closing a run open at the right edge
RowSpans(row, threshold) ==
    LET r == ScanFrom(row, 0, None, <<>>, threshold)
    IN IF r.on # None
       THEN Append(r.spans, <<r.on[1], Len(row)>>)
       ELSE r.spans

\* a variant that keeps the image's row number
FlipYNone(lc, yy) == yy

\* main.rs 159: flip y coordinate
FlipY(lc, yy) == lc - 1 - yy

\* Vec::reverse
Reverse(s) == [i \in 1..Len(s) |-> s[Len(s) + 1 - i]]

\* main.rs 137-160: one iteration of `for y in 0..line_count`
ScanRow ==
    /\ pc = "spans"
    /\ y < line_count
    /\ rows' = Append(rows, <<FlipY(line_count, y),
                              RowSpans(resized[y + 1], args.threshold)>>)
    /\ y' = y + 1
    /\ UNCHANGED <<pc, args, err, image, line_count, resized, dp, out, odd, ri>>

\* main.rs 162: the loop is over; rows.reverse()
ReverseRows ==
    /\ pc = "spans"
    /\ y >= line_count
    /\ rows' = Reverse(rows)
    /\ pc' = "precision"
    /\ UNCHANGED <<args, err, image, line_count, resized, y, dp, out, odd, ri>>

-----------------------------------------------------------------------------
(* Precision, main.rs 166-175.                                             *)

Digit == <<"0", "1", "2", "3", "4", "5", "6", "7", "8", "9">>

\* The fractional digits of rem / s by long division: until the remainder
\* is zero, and at most sig significant digits (f64's Display prints the
\* shortest decimal that reads back, which has at most 17 of them).
RECURSIVE FracDigits(_, _, _, _)
FracDigits(rem, s, sig, started) ==
    IF rem = 0 \/ sig = 0
    THEN <<>>
    ELSE LET d == (rem * 10) \div s
             st == started \/ d # 0
         IN <<Digit[d + 1]>> \o
            FracDigits((rem * 10) % s, s, IF st THEN sig - 1 ELSE sig, st)

\* main.rs 170: format!("{}", 1. / steps_per_mm as f64); Display prints a
\* whole f64 without a fractional part ("1", not "1.0").
FormatRecip(s) ==
    IF s = 1 THEN <<"1">> ELSE <<"0", ".">> \o FracDigits(1, s, 17, FALSE)

\* a small natural as a usize
Usize(n) == <<n % LimbBase, (n \div LimbBase) % LimbBase, 0, 0>>

\* usize subtraction, limb by limb: the wrapped difference and whether it
\* overflowed (borrowed out of the top limb)
UsizeSub(a, b) ==
    LET d1 == a[1] - b[1]
        b1 == IF d1 < 0 THEN 1 ELSE 0
        d2 == a[2] - b[2] - b1
        b2 == IF d2 < 0 THEN 1 ELSE 0
        d3 == a[3] - b[3] - b2
        b3 == IF d3 < 0 THEN 1 ELSE 0
        d4 == a[4] - b[4] - b3
    IN [value |-> <<d1 % LimbBase, d2 % LimbBase, d3 % LimbBase, d4 % LimbBase>>,
        overflow |-> d4 < 0]

\* a variant that counts one character too many as not being a digit
AutoPrecisionOffByOne(s) == UsizeSub(Usize(Len(FormatRecip(s))), Usize(3))

\* main.rs 170: format!(..).len() - 2
AutoPrecision(s) == UsizeSub(Usize(Len(FormatRecip(s))), Usize(2))

\* main.rs 174: dp as i32 (the low 32 bits, two's complement)
AsI32(u) ==
    IF u[2] >= LimbBase \div 2
    THEN u[1] + LimbBase * (u[2] - LimbBase)
    ELSE u[1] + LimbBase * u[2]

\* main.rs 174: 10_f64.powi(dp as i32)
Sdp(u) ==
    IF AsI32(u) >= 0 THEN Rat(Pow10(AsI32(u)), 1) ELSE Rat(1, Pow10(-AsI32(u)))

\* main.rs 175: round = |f| (f * sdp).round() / sdp
Round(f, sdp) == RatDiv(Rat(RoundRat(RatMul(f, sdp)), 1), sdp)

\* main.rs 166-173: the precision is forced, or derived without overflow, or
\* derived with an overflow that wraps (a build without overflow checks)
ResolvePrecision ==
    /\ pc = "precision"
    /\ dp' = IF args.precision # None
             THEN Usize(args.precision[1])
             ELSE AutoPrecision(args.steps_per_mm).value
    /\ pc' = "preamble"
    /\ UNCHANGED <<args, err, image, line_count, resized, rows, y, out, odd, ri>>

\* main.rs 170: the subtraction overflows in a build with overflow checks
PrecisionPanic ==
    /\ pc = "precision"
    /\ args.precision = None
    /\ AutoPrecision(args.steps_per_mm).overflow
    /\ pc' = "error"
    /\ err' = "panic"
    /\ UNCHANGED <<args, image, line_count, resized, rows, y, dp, out, odd, ri>>

-----------------------------------------------------------------------------
(* Emission, main.rs 177-221.                                              *)

G0(x, hasY, yc, w, v) == [op |-> "G0", x |-> x, hasY |-> hasY, y |-> yc, w |-> w, v |-> v]
G1(x, v) == [op |-> "G1", x |-> x, hasY |-> FALSE, w |-> "S", v |-> v]
Comment(yy, rtl) == [op |-> "(", row |-> yy, dir |-> IF rtl THEN "<-" ELSE "->"]

\* main.rs 177-180
Preamble ==
    /\ pc = "preamble"
    /\ out' = out \o << [op |-> "G90"],
                        G0(Rat(0, 1), TRUE, Rat(0, 1), "F", Feed),
                        [op |-> "M3", w |-> "S", v |-> 0] >>
    /\ odd' = FALSE
    /\ ri' = 0
    /\ pc' = "emit"
    /\ UNCHANGED <<args, err, image, line_count, resized, rows, y, dp>>

\* main.rs 181-182
mm_per_line(a) == Rat(1, a.lines_per_mm)
half_line(a) == RatDiv(mm_per_line(a), Rat(2, 1))
\* main.rs 183-187
mm_per_pixel(a) ==
    IF a.quantize_horizontal THEN mm_per_line(a) ELSE RatDiv(Rat(1, 1), dpmm(a))

\* a variant that takes the direction from the LSB of the row index
RtlByRowIndex(a, o, yy) == a.motion = "bi" /\ yy % 2 = 1

\* main.rs 195
Rtl(a, o, yy) == a.motion = "bi" /\ o

\* main.rs 203
Yc(a, yy, sdp) == Round(RatAdd(RatMul(Rat(yy, 1), mm_per_line(a)), half_line(a)), sdp)

\* a variant that engraves without the rapid move
SpanLinesNoRapid(a, span, rtl, yc, sdp) ==
    << G1(Round(RatMul(Rat(IF rtl THEN span[1] ELSE span[2], 1), mm_per_pixel(a)), sdp),
          Power) >>

\* a variant that forgets to swap the edges of a right-to-left span
SpanLinesIgnoreRtl(a, span, rtl, yc, sdp) ==
    << G0(Round(RatMul(Rat(span[1], 1), mm_per_pixel(a)), sdp), TRUE, yc, "S", 0),
       G1(Round(RatMul(Rat(span[2], 1), mm_per_pixel(a)), sdp), Power) >>

\* main.rs 205-213: the two lines of one span
SpanLines(a, span, rtl, yc, sdp) ==
    LET sxc == Round(RatMul(Rat(span[1], 1), mm_per_pixel(a)), sdp)
        exc == Round(RatMul(Rat(span[2], 1), mm_per_pixel(a)), sdp)
    IN IF rtl
       THEN << G0(exc, TRUE, yc, "S", 0), G1(sxc, Power) >>
       ELSE << G0(sxc, TRUE, yc, "S", 0), G1(exc, Power) >>

\* a variant that writes the Y word on the first span of a row only
RECURSIVE SpansLinesYOnFirst(_, _, _, _, _, _)
SpansLinesYOnFirst(a, spans, i, rtl, yc, sdp) ==
    IF i > Len(spans)
    THEN <<>>
    ELSE LET l == SpanLines(a, spans[i], rtl, yc, sdp)
         IN << IF i = 1 THEN l[1] ELSE [l[1] EXCEPT !.hasY = FALSE], l[2] >> \o
            SpansLinesYOnFirst(a, spans, i + 1, rtl, yc, sdp)

\* main.rs 204-214: `for (sx, ex) in spans`, from the i-th span on
RECURSIVE SpansLines(_, _, _, _, _, _)
SpansLines(a, spans, i, rtl, yc, sdp) ==
    IF i > Len(spans)
    THEN <<>>
    ELSE SpanLines(a, spans[i], rtl, yc, sdp) \o
         SpansLines(a, spans, i + 1, rtl, yc, sdp)

\* a variant that flips the toggle on every row, blank or not
OddAfterEveryRow(o, spans) == ~o

\* main.rs 191-193, 219: the toggle after a row: a row without spans is
\* skipped by `continue` before the toggle is touched
OddAfter(o, spans) == IF spans = <<>> THEN o ELSE ~o

\* main.rs 195-214: the lines of one non-empty row
RowLines(a, yy, spans, o, sdp) ==
    LET rtl == Rtl(a, o, yy)
        ordered == IF rtl THEN Reverse(spans) ELSE spans
    IN << Comment(yy, rtl) >> \o
       SpansLines(a, ordered, 1, rtl, Yc(a, yy, sdp), sdp)

\* main.rs 190-220: one iteration of `for (y, mut spans) in rows`
EmitRow ==
    /\ pc = "emit"
    /\ ri < Len(rows)
    /\ LET row == rows[ri + 1]
       IN IF row[2] = <<>>
          THEN out' = out
          ELSE out' = out \o RowLines(args, row[1], row[2], odd, Sdp(dp))
    /\ odd' = OddAfter(odd, rows[ri + 1][2])
    /\ ri' = ri + 1
    /\ UNCHANGED <<pc, args, err, image, line_count, resized, rows, y, dp>>

\* main.rs 221: the loop is over
Postamble ==
    /\ pc = "emit"
    /\ ri >= Len(rows)
    /\ out' = Append(out, [op |-> "M5"])
    /\ pc' = "done"
    /\ UNCHANGED <<args, err, image, line_count, resized, rows, y, dp, odd, ri>>

Next ==
    \/ Check
    \/ Load
    \/ LoadFail
    \/ Scale
    \/ SaveFail
    \/ ScanRow
    \/ ReverseRows
    \/ ResolvePrecision
    \/ PrecisionPanic
    \/ Preamble
    \/ EmitRow
    \/ Postamble

Spec == Init /\ [][Next]_vars

-----------------------------------------------------------------------------
(* Properties.                                                             *)

IsComment(l) == l.op = "("
IsMoveLine(l) == l.op \in {"G0", "G1"}
\* the '( row <y>: .. )' lines of the output, in order
Comments == SelectSeq(out, IsComment)
\* main is past the span loop and rows.reverse()
Planned == pc \in {"precision", "preamble", "emit", "done"} \/ err = "panic"

\* the precision is resolved: forced, or derived without an overflow (the
\* statements that the code refutes are refuted on such runs, so that no
\* violation owes anything to the overflow of C9)
PrecisionDerived ==
    /\ dp # None
    /\ args.precision # None \/ ~AutoPrecision(args.steps_per_mm).overflow

\* C1: with dpi <= 0, steps_per_mm = 0, lines_per_mm = 0 or steps_per_mm not
\* a multiple of lines_per_mm, the run is, right after the checks, in the
\* error state, with no image read, no row processed and nothing written.
C1_BadConfigFailsBeforeAnyWork ==
    LET bad == \/ args.dpi10 <= 0
               \/ args.steps_per_mm = 0
               \/ args.lines_per_mm = 0
               \/ args.steps_per_mm % args.lines_per_mm # 0
    IN (bad /\ pc # "check") =>
          /\ pc = "error" /\ err = "config"
          /\ image = None /\ resized = <<>>
          /\ rows = <<>> /\ y = 0
          /\ out = <<>>

C1_Witness ==
    /\ pc = "error" /\ err = "config"
    /\ args.dpi10 > 0 /\ args.steps_per_mm = 4 /\ args.lines_per_mm = 3

\* C2: the spans of a scanned row are the run-length encoding of the
\* columns whose sample is strictly below the threshold: start < end <=
\* width, end_k < start_(k+1), a column is on iff it lies in exactly one
\* span, and a run open at the last column ends at the row width.
IsRunLengthEncoding(row, spans, threshold) ==
    /\ \A k \in 1..Len(spans) :
          spans[k][1] < spans[k][2] /\ spans[k][2] <= Len(row)
    /\ \A k \in 1..(Len(spans) - 1) : spans[k][2] < spans[k + 1][1]
    /\ \A x \in 0..(Len(row) - 1) :
          (row[x + 1] < threshold) <=>
             Cardinality({k \in 1..Len(spans) :
                             spans[k][1] <= x /\ x < spans[k][2]}) = 1
    /\ (Len(row) > 0 /\ row[Len(row)] < threshold) =>
          (spans # <<>> /\ spans[Len(spans)][2] = Len(row))

C3_EmittedRowsAlternate ==
    args.motion = "bi" =>
       \A k \in 1..Len(Comments) :
          (Comments[k].dir = "<-") <=> ((k - 1) % 2 = 1)

C3_Witness ==
    /\ pc = "done" /\ args.motion = "bi"
    /\ Len(Comments) = 2
    /\ Comments[1].row = 1 /\ Comments[2].row = 3

\* the emission order is [non-empty, blank, non-empty] and the run is over
OnBlankOn ==
    /\ pc = "done" /\ args.motion = "bi"
    /\ Len(rows) = 3
    /\ rows[1][2] # <<>> /\ rows[2][2] = <<>> /\ rows[3][2] # <<>>

\* C4 as stated: for rows [non-empty, blank, non-empty] in bidirectional
\* mode both non-empty rows are emitted in the same direction.
C4_SameDirectionAcrossBlank ==
    (OnBlankOn /\ PrecisionDerived) => Comments[1].dir = Comments[2].dir

\* C4 amended: for rows [non-empty, blank, non-empty] in bidirectional mode
\* the two non-empty rows are emitted in opposite directions, the first
\* left-to-right and the second right-to-left: the blank row is skipped
\* without touching the toggle.
C4_OppositeDirectionAcrossBlank ==
    OnBlankOn => (Comments[1].dir = "->" /\ Comments[2].dir = "<-")

C4_Witness == OnBlankOn /\ Len(Comments) = 2

\* C5: bitmap row y gets row index line_count - 1 - y, and rows are emitted
\* bottom-to-top: after the reversal the i-th entry has index i - 1 and
\* holds the spans of bitmap row line_count - i, and the row indices of
\* the comment lines are strictly increasing, each in 0..line_count-1.
C5_RowFlipAndBottomUp ==
    /\ pc = "spans" =>
          \A i \in 1..Len(rows) : rows[i][1] = line_count - 1 - (i - 1)
    /\ Planned =>
          /\ Len(rows) = line_count
          /\ \A i \in 1..Len(rows) :
                /\ rows[i][1] = i - 1
                /\ rows[i][2] = RowSpans(resized[line_count - (i - 1)], args.threshold)
    /\ \A k \in 1..Len(Comments) :
          /\ Comments[k].row \in 0..(line_count - 1)
          /\ k > 1 => Comments[k - 1].row < Comments[k].row

C5_Witness ==
    /\ pc = "done" /\ line_count = 3
    /\ Len(Comments) = 2
    /\ rows[1][2] # rows[3][2]
    /\ rows[3][1] = 2 /\ rows[3][2] = RowSpans(resized[1], args.threshold)

RECURSIVE SpanCount(_, _)
\* the number of spans of the first n entries of rows
SpanCount(rs, n) == IF n = 0 THEN 0 ELSE Len(rs[n][2]) + SpanCount(rs, n - 1)

CountOp(op) == Cardinality({i \in 1..Len(out) : out[i].op = op})
\* the lines between the preamble and the trailing M5
Body == 4..(Len(out) - 1)

\* C6: a successful run prints G90, then G0 X0 Y0 F<feed>, then M3 S0, each
\* once, M5 once as the last line, and in between every G0 carries S0 and
\* is directly followed by one G1 carrying S<power>, every G1 directly
\* follows a G0, and every non-empty row contributes its comment and one
\* G0/G1 pair per span, a blank row nothing.
C6_StreamShape ==
    pc = "done" =>
       /\ Len(out) >= 4
       /\ out[1] = [op |-> "G90"]
       /\ out[2].op = "G0" /\ out[2].w = "F" /\ out[2].v = 1000
       /\ out[2].x = <<0, 1>> /\ out[2].hasY /\ out[2].y = <<0, 1>>
       /\ out[3] = [op |-> "M3", w |-> "S", v |-> 0]
       /\ out[Len(out)] = [op |-> "M5"]
       /\ CountOp("G90") = 1 /\ CountOp("M3") = 1 /\ CountOp("M5") = 1
       /\ \A i \in Body :
             /\ out[i].op \in {"(", "G0", "G1"}
             /\ out[i].op = "G0" =>
                   /\ out[i].w = "S" /\ out[i].v = 0
                   /\ out[i + 1].op = "G1" /\ out[i + 1].w = "S" /\ out[i + 1].v = 1000
             /\ out[i].op = "G1" => (out[i - 1].op = "G0" /\ i - 1 \in Body)
             /\ out[i].op = "(" =>
                   LET n == Len(rows[out[i].row + 1][2])
                   IN /\ n > 0
                      /\ \A j \in 1..n : out[i + 2 * j - 1].op = "G0"
                      /\ out[i + 2 * n + 1].op \in {"(", "M5"}
       /\ CountOp("G1") = SpanCount(rows, Len(rows))
       /\ CountOp("G0") = 1 + SpanCount(rows, Len(rows))
       /\ CountOp("(") = Cardinality({i \in 1..Len(rows) : rows[i][2] # <<>>})

C6_Witness ==
    /\ pc = "done"
    /\ \E i \in 1..Len(rows) : Len(rows[i][2]) = 2
    /\ \E i \in 1..Len(rows) : rows[i][2] = <<>>
    /\ CountOp("G1") = 2

\* C7 as stated: within an emitted row only the G0 of the first span
\* carries a Y word; the G0 of a later span carries none.
C7_OnlyFirstRapidCarriesY ==
    PrecisionDerived =>
       \A i \in Body :
          out[i].op = "G0" => (out[i].hasY <=> out[i - 1].op = "(")

\* C7 amended: within an emitted row the G0 of every span, the first and
\* the later ones alike, carries the row's Y coordinate (the same value);
\* only the G1 moves carry no Y word.
C7_EveryRapidCarriesRowY ==
    \A i \in 1..Len(out) :
       /\ (out[i].op = "G0" /\ i > 3) =>
             /\ out[i].hasY
             /\ out[i - 1].op = "G1" => out[i].y = out[i - 2].y
             /\ out[i - 1].op = "(" =>
                   RatEq(out[i].y,
                         Round(Rat(2 * out[i - 1].row + 1, 2 * args.lines_per_mm), Sdp(dp)))
       /\ out[i].op = "G1" => ~out[i].hasY

C7_Witness ==
    /\ pc = "done"
    /\ \E i \in Body : out[i].op = "G0" /\ out[i - 1].op = "G1" /\ out[i].hasY

\* c is a whole number of machine steps of 1/steps_per_mm mm
WholeSteps(c) == (c[1] * args.steps_per_mm) % c[2] = 0

\* C8 as stated: with the precision derived from steps_per_mm every emitted
\* X and Y coordinate is a whole number of machine steps.
C8_EveryCoordinateWholeSteps ==
    args.precision = None =>
       \A i \in 1..Len(out) :
          IsMoveLine(out[i]) =>
             /\ WholeSteps(out[i].x)
             /\ out[i].hasY => WholeSteps(out[i].y)

\* C8 amended: with the precision derived from steps_per_mm (a reciprocal
\* with a finite decimal expansion), an emitted Y is a whole number of
\* machine steps when steps_per_mm / lines_per_mm is even, and an emitted X
\* is when horizontal quantization is on.
C8_AlignedCoordinatesWholeSteps ==
    args.precision = None =>
       \A i \in 1..Len(out) :
          IsMoveLine(out[i]) =>
             /\ args.quantize_horizontal => WholeSteps(out[i].x)
             /\ (out[i].hasY /\ (args.steps_per_mm \div args.lines_per_mm) % 2 = 0) =>
                   WholeSteps(out[i].y)

C8_Witness ==
    /\ pc = "done" /\ args.precision = None
    /\ args.quantize_horizontal
    /\ args.steps_per_mm = 4 /\ args.lines_per_mm = 2
    /\ \E i \in Body : out[i].op = "G1" /\ out[i].x[1] # 0 /\ out[i - 1].y[1] # 0

\* the least number of fractional digits that write 1/s exactly
MinDigits(s) ==
    CHOOSE d \in 0..9 :
       /\ Pow10(d) % s = 0
       /\ \A e \in 0..(d - 1) : Pow10(e) % s # 0

\* C9: without an explicit precision the resolved precision is the least
\* number of fractional digits that write 1/steps_per_mm exactly, for every
\* steps_per_mm >= 1 with a finite decimal reciprocal.
C9_AutoPrecisionIsMinimalDigits ==
    (args.precision = None /\ (pc \in {"preamble", "emit", "done"} \/ err = "panic")) =>
       /\ err # "panic"
       /\ dp = <<MinDigits(args.steps_per_mm), 0, 0, 0>>

\* the move pair of the j-th executed span of the row whose comment is
\* out[i], for a row run right-to-left over spans
RtlPairTargetsEdges(i, j, spans) ==
    LET sp == spans[Len(spans) + 1 - j]
    IN /\ out[i + 2 * j - 1].op = "G0"
       /\ RatEq(out[i + 2 * j - 1].x,
                Round(RatMul(Rat(sp[2], 1), mm_per_pixel(args)), Sdp(dp)))
       /\ out[i + 2 * j].op = "G1"
       /\ RatEq(out[i + 2 * j].x,
                Round(RatMul(Rat(sp[1], 1), mm_per_pixel(args)), Sdp(dp)))

\* C10 as stated: a right-to-left row runs its spans from the rightmost to
\* the leftmost, G0 to the end column and G1 to the start column, and after
\* rounding every G1 strictly decreases X; unidirectional rows are all
\* left-to-right.
C10_RtlStrictlyDecreases ==
    PrecisionDerived =>
       \A i \in 1..Len(out) :
          out[i].op = "(" =>
             /\ args.motion = "uni" => out[i].dir = "->"
             /\ out[i].dir = "<-" =>
                   LET spans == rows[out[i].row + 1][2]
                   IN \A j \in 1..Len(spans) :
                         /\ RtlPairTargetsEdges(i, j, spans)
                         /\ RatLt(out[i + 2 * j].x, out[i + 2 * j - 1].x)

\* C10 amended: a right-to-left row runs its spans from the rightmost to
\* the leftmost, G0 to the end column and G1 to the start column, and after
\* rounding a G1 never increases X; it decreases X strictly when the span is
\* at least one rounding unit (1/sdp mm) long, and may leave X unchanged
\* when it is shorter; unidirectional rows are all left-to-right.
C10_RtlNeverIncreases ==
    \A i \in 1..Len(out) :
       out[i].op = "(" =>
          /\ args.motion = "uni" => out[i].dir = "->"
          /\ out[i].dir = "<-" =>
                LET spans == rows[out[i].row + 1][2]
                IN \A j \in 1..Len(spans) :
                      LET sp == spans[Len(spans) + 1 - j]
                          units == RatMul(RatMul(Rat(sp[2] - sp[1], 1),
                                                 mm_per_pixel(args)), Sdp(dp))
                      IN /\ RtlPairTargetsEdges(i, j, spans)
                         /\ RatLe(out[i + 2 * j].x, out[i + 2 * j - 1].x)
                         /\ RatLe(Rat(1, 1), units) =>
                               RatLt(out[i + 2 * j].x, out[i + 2 * j - 1].x)

C10_Witness ==
    /\ pc = "done"
    /\ \E i \in Body :
          /\ out[i].op = "(" /\ out[i].dir = "<-"
          /\ Len(rows[out[i].row + 1][2]) = 2
          /\ RatLt(out[i + 2].x, out[i + 1].x)
          /\ RatLt(out[i + 3].x, out[i + 2].x)

====
